---- MODULE Spec2Model ----
(***************************************************************************)
(* ubc-genai-toolkit-llm: the LLMModule facade, its four provider adapters *)
(* (OpenAI, Anthropic, Ollama, UBC LLM Sandbox) and ConversationImpl.       *)
(*                                                                         *)
(* JavaScript values are written as string tokens.  An options bag is a    *)
(* record over OptionKeys; a key the object does not carry holds Absent, a *)
(* key carried with the value undefined holds Undefined.  A missing        *)
(* options argument reads like the empty bag NoOptions (options?.x is      *)
(* undefined, ...undefined spreads nothing).                               *)
(***************************************************************************)
EXTENDS Integers, Sequences, FiniteSets, TLC

\* ---------------------------------------------------------------- bounds
MaxHistory == 1     \* messages a conversation holds before a call is issued
MaxEvents == 2      \* events one backend stream emits
MaxOptKeys == 2     \* keys carried by one options bag
MaxMessages == 2    \* messages of an array handed to the facade directly
MaxTexts == 2       \* texts of one embed call
MaxPages == 2       \* pages of a backend's model listing

\* ---------------------------------------------------------------- values
Absent == "<absent>"
Undefined == "<undefined>"

Providers == {"openai", "anthropic", "ollama", "ubc-llm-sandbox"}
Roles == {"user", "assistant", "system"}

\* new Date().toISOString(): every reading of the clock is one token
NowISO == "<now>"

\* Message of types.ts; timestamp is optional
Message(role, content, timestamp) ==
    [role |-> role, content |-> content, timestamp |-> timestamp]

\* ---------------------------------------------------------------- options
KnownKeys == {"model", "temperature", "maxTokens", "systemPrompt", "responseFormat", "stream"}
\* keys the toolkit does not know: a backend tuning parameter, and keys named
\* like fields the adapters compute for the payload themselves
CollidingKeys == {"max_tokens", "system", "response_format", "messages"}
PassthroughKeys == {"num_ctx"} \cup CollidingKeys
OptionKeys == KnownKeys \cup PassthroughKeys

NoOptions == [k \in OptionKeys |-> Absent]

LLMOptionsUniverse ==
    [model : {Absent, "m2"},
     temperature : {Absent, Undefined, "0.2", "0.9"},
     maxTokens : {Absent, "50"},
     systemPrompt : {Absent, "", "P"},
     responseFormat : {Absent, "json", "text"},
     stream : {Absent, "true", "false"},
     num_ctx : {Absent, "8192"},
     max_tokens : {Absent},
     system : {Absent},
     response_format : {Absent},
     messages : {Absent}]

PresentKeys(o) == {k \in OptionKeys : o[k] # Absent}

LLMOptions == {o \in LLMOptionsUniverse : Cardinality(PresentKeys(o)) <= MaxOptKeys}

\* options?.key
Get(o, k) == IF o[k] = Absent THEN Undefined ELSE o[k]

\* JavaScript truthiness of a token: undefined, '' and 0 are falsy
Truthy(v) == v \notin {Absent, Undefined, "", "0"}

\* { ...target, ...source }
Spread(target, source) ==
    [k \in OptionKeys |-> IF source[k] # Absent THEN source[k] ELSE target[k]]

DefaultModel == "m1"

mergeOptionsDefaultsLast(defaults, options, overrides) ==
    Spread(Spread(Spread([NoOptions EXCEPT !["model"] = DefaultModel], options),
                  overrides), defaults)

\* LLMModule.mergeOptions
mergeOptions(defaults, options, overrides) ==
    Spread(Spread(Spread([NoOptions EXCEPT !["model"] = DefaultModel], defaults),
                  options), overrides)

\* the overrides each facade verb forces
SendOverrides == NoOptions
StreamOverrides == [NoOptions EXCEPT !["stream"] = "true"]

\* ---------------------------------------------------------------- requests
\* A request is what the adapter hands to its backend client: the message
\* list and the remaining parameters.  Ollama's nested options object is
\* written with dotted keys.  A parameter holding Undefined is carried by the
\* object but not serialised.
ParamKeys ==
    {"model", "temperature", "max_tokens", "response_format", "stream", "system",
     "format", "options.temperature", "options.num_predict"}
    \cup (OptionKeys \ {"messages"})

NoParams == [k \in ParamKeys |-> Absent]

Request(msgs, params) == [messages |-> msgs, params |-> params]

separateOptionsKeepsStream(o) ==
    [k \in OptionKeys |-> IF k \in KnownKeys \ {"stream"} THEN Absent ELSE o[k]]

\* const { model, temperature, maxTokens, systemPrompt, responseFormat, stream, ...rest } = options
separateOptions(o) == [k \in OptionKeys |-> IF k \in KnownKeys THEN Absent ELSE o[k]]

SpreadRestFirst(params, rest) ==
    [k \in ParamKeys |->
        IF params[k] # Absent \/ k \notin OptionKeys THEN params[k] ELSE rest[k]]

\* { ...params, ...rest }
SpreadRest(params, rest) ==
    [k \in ParamKeys |->
        IF k \in OptionKeys /\ rest[k] # Absent THEN rest[k] ELSE params[k]]

\* a passthrough value of the key messages: a token standing for a message array
PassthroughMessages == "[{user, z}]"
ArrayOf(v) == IF v = PassthroughMessages THEN <<[role |-> "user", content |-> "z"]>> ELSE <<>>

\* { messages: computed, ...rest }: the messages field of the spread
SpreadRestMessages(wire, rest) ==
    IF rest["messages"] # Absent THEN ArrayOf(rest["messages"]) ELSE wire

\* messages.map((msg) => ({ role: msg.role, content: msg.content }))
ToWire(msgs) ==
    [i \in 1..Len(msgs) |-> [role |-> msgs[i].role, content |-> msgs[i].content]]

\* messages.some(m => m.role === 'system')
HasSystem(msgs) == \E i \in 1..Len(msgs) : msgs[i].role = "system"

SystemMessage(content) == [role |-> "system", content |-> content]

UnshiftSystemPromptAlways(wire, msgs, o) ==
    IF Truthy(Get(o, "systemPrompt"))
    THEN <<SystemMessage(o["systemPrompt"])>> \o wire
    ELSE wire

\* if (options?.systemPrompt && !messages.some(m => m.role === 'system')) unshift(...)
UnshiftSystemPrompt(wire, msgs, o) ==
    IF Truthy(Get(o, "systemPrompt")) /\ ~HasSystem(msgs)
    THEN <<SystemMessage(o["systemPrompt"])>> \o wire
    ELSE wire

CallerArrayAfterUnshift(msgs, o) ==
    IF Truthy(Get(o, "systemPrompt")) /\ ~HasSystem(msgs)
    THEN <<Message("system", o["systemPrompt"], Absent)>> \o msgs
    ELSE msgs

\* const openAIMessages = messages.map(...) builds a new array, and unshift
\* changes that one: the array the caller passed in is left as it was
CallerArrayAfter(msgs, o) == msgs

\* options?.model || this.defaultModel
ModelOf(o) == IF Truthy(Get(o, "model")) THEN o["model"] ELSE DefaultModel

\* responseFormat === 'json' ? { type: 'json_object' } : undefined
JsonObjectFormat(o) == IF Get(o, "responseFormat") = "json" THEN "json_object" ELSE Undefined

OpenAISendConversation(msgs, o) ==
    Request(SpreadRestMessages(UnshiftSystemPrompt(ToWire(msgs), msgs, o), separateOptions(o)),
            SpreadRest([NoParams EXCEPT
                            !["model"] = ModelOf(o),
                            !["temperature"] = Get(o, "temperature"),
                            !["max_tokens"] = Get(o, "maxTokens"),
                            !["response_format"] = JsonObjectFormat(o),
                            !["stream"] = "false"],
                       separateOptions(o)))

OpenAIStreamConversationJson(msgs, o) ==
    Request(SpreadRestMessages(UnshiftSystemPrompt(ToWire(msgs), msgs, o), separateOptions(o)),
            SpreadRest([NoParams EXCEPT
                            !["model"] = ModelOf(o),
                            !["temperature"] = Get(o, "temperature"),
                            !["max_tokens"] = Get(o, "maxTokens"),
                            !["response_format"] = JsonObjectFormat(o),
                            !["stream"] = "true"],
                       separateOptions(o)))

\* stream: true, and no response_format
OpenAIStreamConversation(msgs, o) ==
    Request(SpreadRestMessages(UnshiftSystemPrompt(ToWire(msgs), msgs, o), separateOptions(o)),
            SpreadRest([NoParams EXCEPT
                            !["model"] = ModelOf(o),
                            !["temperature"] = Get(o, "temperature"),
                            !["max_tokens"] = Get(o, "maxTokens"),
                            !["stream"] = "true"],
                       separateOptions(o)))

\* messages.filter(msg => msg.role !== 'system').map(...)
AnthropicMessages(msgs) == ToWire(SelectSeq(msgs, LAMBDA m : m.role # "system"))

\* options?.maxTokens || 4096
AnthropicMaxTokens(o) == IF Truthy(Get(o, "maxTokens")) THEN o["maxTokens"] ELSE "4096"

AnthropicSendConversation(msgs, o) ==
    Request(SpreadRestMessages(AnthropicMessages(msgs), separateOptions(o)),
            SpreadRest([NoParams EXCEPT
                            !["model"] = ModelOf(o),
                            !["max_tokens"] = AnthropicMaxTokens(o),
                            !["temperature"] = Get(o, "temperature"),
                            !["system"] = Get(o, "systemPrompt"),
                            !["stream"] = "false"],
                       separateOptions(o)))

AnthropicStreamConversation(msgs, o) ==
    Request(SpreadRestMessages(AnthropicMessages(msgs), separateOptions(o)),
            SpreadRest([NoParams EXCEPT
                            !["model"] = ModelOf(o),
                            !["max_tokens"] = AnthropicMaxTokens(o),
                            !["temperature"] = Get(o, "temperature"),
                            !["system"] = Get(o, "systemPrompt"),
                            !["stream"] = "true"],
                       separateOptions(o)))

\* if (options?.x !== undefined) ollamaOptions.y = options.x
OllamaOption(o, k) == IF Get(o, k) # Undefined THEN o[k] ELSE Absent

\* format: options?.responseFormat === 'json' ? 'json' : undefined
OllamaFormat(o) == IF Get(o, "responseFormat") = "json" THEN "json" ELSE Undefined

OllamaSendConversation(msgs, o) ==
    Request(UnshiftSystemPrompt(ToWire(msgs), msgs, o),
            [NoParams EXCEPT
                 !["model"] = ModelOf(o),
                 !["stream"] = "false",
                 !["format"] = OllamaFormat(o),
                 !["options.temperature"] = OllamaOption(o, "temperature"),
                 !["options.num_predict"] = OllamaOption(o, "maxTokens")])

OllamaStreamConversation(msgs, o) ==
    Request(UnshiftSystemPrompt(ToWire(msgs), msgs, o),
            [NoParams EXCEPT
                 !["model"] = ModelOf(o),
                 !["stream"] = "true",
                 !["format"] = OllamaFormat(o),
                 !["options.temperature"] = OllamaOption(o, "temperature"),
                 !["options.num_predict"] = OllamaOption(o, "maxTokens")])

UbcSendConversation(msgs, o) ==
    Request(SpreadRestMessages(UnshiftSystemPrompt(ToWire(msgs), msgs, o), separateOptions(o)),
            SpreadRest([NoParams EXCEPT
                            !["model"] = ModelOf(o),
                            !["temperature"] = Get(o, "temperature"),
                            !["max_tokens"] = Get(o, "maxTokens"),
                            !["response_format"] = JsonObjectFormat(o),
                            !["stream"] = "false"],
                       separateOptions(o)))

UbcStreamConversation(msgs, o) ==
    Request(SpreadRestMessages(UnshiftSystemPrompt(ToWire(msgs), msgs, o), separateOptions(o)),
            SpreadRest([NoParams EXCEPT
                            !["model"] = ModelOf(o),
                            !["temperature"] = Get(o, "temperature"),
                            !["max_tokens"] = Get(o, "maxTokens"),
                            !["stream"] = "true"],
                       separateOptions(o)))

\* this.provider.sendConversation(messages, mergedOptions)
ProviderSendConversation(p, msgs, o) ==
    CASE p = "openai" -> OpenAISendConversation(msgs, o)
      [] p = "anthropic" -> AnthropicSendConversation(msgs, o)
      [] p = "ollama" -> OllamaSendConversation(msgs, o)
      [] p = "ubc-llm-sandbox" -> UbcSendConversation(msgs, o)

\* this.provider.streamConversation(messages, callback, mergedOptions)
ProviderStreamConversation(p, msgs, o) ==
    CASE p = "openai" -> OpenAIStreamConversation(msgs, o)
      [] p = "anthropic" -> AnthropicStreamConversation(msgs, o)
      [] p = "ollama" -> OllamaStreamConversation(msgs, o)
      [] p = "ubc-llm-sandbox" -> UbcStreamConversation(msgs, o)

\* ---------------------------------------------------------------- outcomes
NoOutcome == [kind |-> "pending"]

\* LLMResponse.usage: the object and its three counts, or no usage key at all
Usage(promptTokens, completionTokens, totalTokens) ==
    [defined |-> TRUE, promptTokens |-> promptTokens,
     completionTokens |-> completionTokens, totalTokens |-> totalTokens]

NoUsage ==
    [defined |-> FALSE, promptTokens |-> Undefined,
     completionTokens |-> Undefined, totalTokens |-> Undefined]

\* LLMResponse: content, usage, and the provider tag of metadata
Response(p, content, usage) ==
    [kind |-> "response", content |-> content, usage |-> usage, provider |-> p]

\* APIError of ubc-genai-toolkit-core: message, code, details
APIError(code, detailsProvider, originalError, from) ==
    [kind |-> "error", name |-> "APIError", code |-> code,
     provider |-> detailsProvider, originalError |-> originalError, from |-> from]

\* what a backend call, a backend stream or the caller's callback throws:
\* an SDK APIError with or without an HTTP status, or a plain Error
RawError(class, status, from) == [class |-> class, status |-> status, from |-> from]

BackendErrors ==
    {RawError("SDKAPIError", "429", "backend"), RawError("Error", Undefined, "backend")}

CallbackError == RawError("Error", Undefined, "callback")

\* error.status || 500
StatusOr500(e) == IF Truthy(e.status) THEN e.status ELSE "500"

\* new APIError(message) leaves the code to the core package's default
DefaultCode == "<core default>"

OpenAIHandleError(e) ==
    IF e.class = "SDKAPIError"
    THEN APIError(StatusOr500(e), Absent, FALSE, e.from)
    ELSE APIError(DefaultCode, Absent, FALSE, e.from)

AnthropicHandleError(e) ==
    IF e.class = "SDKAPIError"
    THEN APIError(StatusOr500(e), "anthropic", TRUE, e.from)
    ELSE APIError("500", "anthropic", TRUE, e.from)

OllamaHandleError(e) ==
    IF Truthy(e.status)
    THEN APIError(e.status, "ollama", TRUE, e.from)
    ELSE APIError("500", "ollama", TRUE, e.from)

UbcHandleError(e) ==
    IF e.class = "SDKAPIError"
    THEN APIError(StatusOr500(e), "ubc-llm-sandbox", TRUE, e.from)
    ELSE APIError("500", "ubc-llm-sandbox", TRUE, e.from)

\* catch (error) { throw this.handleError(error) }
RethrowRaw(p, e) ==
    [kind |-> "error", name |-> e.class, code |-> e.status,
     provider |-> Absent, originalError |-> FALSE, from |-> e.from]

\* catch (error) { throw this.handleError(error) }
HandleError(p, e) ==
    CASE p = "openai" -> OpenAIHandleError(e)
      [] p = "anthropic" -> AnthropicHandleError(e)
      [] p = "ollama" -> OllamaHandleError(e)
      [] p = "ubc-llm-sandbox" -> UbcHandleError(e)

\* the token counts a backend reports with a completed reply
BackendPromptTokens == "3"
BackendCompletionTokens == "5"
BackendTotalTokens == "8"

\* usage of normalizeResponse: OpenAI and sandbox copy the three counts,
\* Anthropic adds input and output tokens, Ollama leaves totalTokens undefined
NormalizedUsage(p) ==
    IF p = "ollama"
    THEN Usage(BackendPromptTokens, BackendCompletionTokens, Undefined)
    ELSE Usage(BackendPromptTokens, BackendCompletionTokens, BackendTotalTokens)

\* normalizeResponse: response.choices[0]?.message?.content || '' and its like
normalizeResponse(p, raw) ==
    Response(p, IF Truthy(raw) THEN raw ELSE "", NormalizedUsage(p))

\* what a backend answers to a non-streaming request: a text, or no text
BackendReplies == {"r", Undefined}

\* ---------------------------------------------------------------- streams
\* One event of a backend stream: a text fragment (possibly empty), or an
\* event that carries no text (OpenAI, Ollama, sandbox: a chunk whose delta has
\* no content; Anthropic: any event other than a text_delta).
TextEvent(text) == [type |-> "text", text |-> text]
OtherEvent == [type |-> "other", text |-> Undefined]

\* the last part of an Ollama stream (done: true) carries the token counts; to
\* the other adapters it is one more event without text
DoneEvent ==
    [type |-> "done", text |-> Undefined, prompt_eval_count |-> "7", eval_count |-> "9"]

Fragments == {"a", "b", ""}
StreamEvents == {TextEvent(f) : f \in Fragments} \cup {OtherEvent, DoneEvent}

\* const content = chunk.choices[0]?.delta?.content || ''; if (content) {...}
OpenAIOnChunk(ev) ==
    LET content == IF Truthy(ev.text) THEN ev.text ELSE ""
    IN  [deliver |-> content # "", chunk |-> content]

\* if (event.type === 'content_block_delta' && event.delta.type === 'text_delta')
AnthropicOnEvent(ev) ==
    [deliver |-> ev.type = "text", chunk |-> IF ev.type = "text" THEN ev.text ELSE ""]

\* const contentChunk = part.message?.content || ''; if (contentChunk) {...}
OllamaOnPart(ev) ==
    LET contentChunk == IF Truthy(ev.text) THEN ev.text ELSE ""
    IN  [deliver |-> contentChunk # "", chunk |-> contentChunk]

UbcOnChunk(ev) ==
    LET content == IF Truthy(ev.text) THEN ev.text ELSE ""
    IN  [deliver |-> content # "", chunk |-> content]

\* the body of the adapter's for await loop
OnStreamEvent(p, ev) ==
    CASE p = "openai" -> OpenAIOnChunk(ev)
      [] p = "anthropic" -> AnthropicOnEvent(ev)
      [] p = "ollama" -> OllamaOnPart(ev)
      [] p = "ubc-llm-sandbox" -> UbcOnChunk(ev)

\* finalResponseMetadata of the Ollama loop: set by each part with done, null before
RECURSIVE FinalResponseMetadata(_)
FinalResponseMetadata(evs) ==
    IF evs = <<>> THEN [prompt_eval_count |-> Undefined, eval_count |-> Undefined]
    ELSE IF evs[Len(evs)].type = "done"
         THEN [prompt_eval_count |-> evs[Len(evs)].prompt_eval_count,
               eval_count |-> evs[Len(evs)].eval_count]
         ELSE FinalResponseMetadata(SubSeq(evs, 1, Len(evs) - 1))

StreamResponseWithCounts(p, content, evs) ==
    Response(p, content, NormalizedUsage(p))

\* what streamConversation returns once the stream has ended
StreamResponse(p, content, evs) ==
    CASE p = "openai" -> Response(p, content, NoUsage)
      [] p = "anthropic" -> Response(p, content, Usage(Undefined, Undefined, Undefined))
      [] p = "ollama" ->
             Response(p, content,
                      Usage(FinalResponseMetadata(evs).prompt_eval_count,
                            FinalResponseMetadata(evs).eval_count, Undefined))
      [] p = "ubc-llm-sandbox" ->
             Response(p, content, Usage(Undefined, Undefined, Undefined))

AccumulateLast(full, chunk) == chunk

\* fullContent += chunk
Accumulate(full, chunk) == full \o chunk

\* ---------------------------------------------------------------- state
VARIABLES
    provider,         \* LLMModule.provider: the adapter built at construction
    defaultOptions,   \* LLMModule.config.defaultOptions
    messages,         \* ConversationImpl.messages, or the array handed to a facade verb
    pc,               \* where the caller's current call stands
    verb,             \* the verb of the current call
    before,           \* getHistory() taken when the current call was issued
    callOptions,      \* the options argument of the current call
    mergedOptions,    \* what mergeOptions handed to the adapter
    request,          \* what the adapter handed to its backend client
    emitted,          \* the events the backend stream has emitted so far
    delivered,        \* the chunks the caller's callback has been invoked with
    fullContent,      \* the adapter's accumulator in streamConversation
    convFullContent,  \* the accumulator of ConversationImpl.stream
    outcome,          \* how the facade's promise settled
    config,           \* LLMModule.config: the merged configuration the facade was built from
    texts,            \* the texts argument of embed
    listing,          \* the pages of the backend's model listing
    requests,         \* backend requests the current call has issued
    thrown,           \* what the backend threw at the current call, if anything
    calls,            \* the verb calls in flight, when several are
    held              \* the array a caller got from getHistory, and what it did to it

vars ==
    <<provider, defaultOptions, messages, pc, verb, before, callOptions, mergedOptions,
      request, emitted, delivered, fullContent, convFullContent, outcome,
      config, texts, listing, requests, thrown, calls, held>>

NoRequest == Request(<<>>, NoParams)

\* nothing was thrown
NoError == [class |-> "none", status |-> Undefined, from |-> "none"]

\* no verb calls tracked side by side
NoCalls == <<>>

\* no array taken from getHistory yet
NoHeld == [taken |-> FALSE, array |-> <<>>, alias |-> FALSE]

\* LLMConfig: the fields initializeProvider reads
LLMConfig(kind, apiKey, endpoint, defaultModel, embeddingModel, logger) ==
    [provider |-> kind, apiKey |-> apiKey, endpoint |-> endpoint,
     defaultModel |-> defaultModel, embeddingModel |-> embeddingModel, logger |-> logger]

\* a configuration every provider kind accepts
ReadyConfig(kind) == LLMConfig(kind, "k", "e", DefaultModel, Absent, "logger")

\* defaultOptions a facade is configured with
ConfiguredDefaults == {NoOptions, [NoOptions EXCEPT !["temperature"] = "0.2"]}

\* options the caller of a conversation passes to send and stream
ConversationOptions ==
    {NoOptions, [NoOptions EXCEPT !["systemPrompt"] = "P", !["num_ctx"] = "8192"]}

\* contents the caller adds with addMessage
Contents == {"q"}

Quiescent == pc \in {"idle", "returned"}

\* the verbs that await one reply, and the verbs that await a stream
SendVerbs == {"send", "sendConversation", "sendMessage"}
StreamVerbs == {"stream", "streamConversation"}

\* the bookkeeping of a call that has not been issued
NoCall ==
    /\ verb' = "none"
    /\ before' = <<>>
    /\ callOptions' = NoOptions
    /\ mergedOptions' = NoOptions
    /\ request' = NoRequest
    /\ emitted' = <<>>
    /\ delivered' = <<>>
    /\ fullContent' = ""
    /\ convFullContent' = ""
    /\ outcome' = NoOutcome
    /\ requests' = 0
    /\ thrown' = NoError

\* new LLMModule(config); llm.createConversation()
Init ==
    /\ provider \in Providers
    /\ defaultOptions = NoOptions
    /\ messages = <<>>
    /\ pc = "idle"
    /\ verb = "none"
    /\ before = <<>>
    /\ callOptions = NoOptions
    /\ mergedOptions = NoOptions
    /\ request = NoRequest
    /\ emitted = <<>>
    /\ delivered = <<>>
    /\ fullContent = ""
    /\ convFullContent = ""
    /\ outcome = NoOutcome
    /\ config = ReadyConfig(provider)
    /\ texts = <<>>
    /\ listing = <<>>
    /\ requests = 0
    /\ thrown = NoError
    /\ calls = NoCalls
    /\ held = NoHeld

\* this.messages.push({ role, content, timestamp: new Date().toISOString() })
addMessagePrepends(msgs, role, content) == <<Message(role, content, NowISO)>> \o msgs

addMessage(msgs, role, content) == Append(msgs, Message(role, content, NowISO))

\* ConversationImpl.addMessage, called by the owner of the conversation
AddMessage(role, content) ==
    /\ Quiescent
    /\ Len(messages) < MaxHistory
    /\ messages' = addMessage(messages, role, content)
    /\ pc' = "idle"
    /\ NoCall
    /\ UNCHANGED <<config, texts, listing, calls, held, provider, defaultOptions>>

SendAppendsEarly(options) ==
    /\ Quiescent
    /\ Len(messages) <= MaxHistory
    /\ verb' = "send"
    /\ before' = messages
    /\ callOptions' = options
    /\ mergedOptions' = mergeOptions(defaultOptions, options, SendOverrides)
    /\ request' = ProviderSendConversation(provider, messages, mergedOptions')
    /\ pc' = "awaitBackend"
    /\ requests' = 1
    /\ thrown' = NoError
    /\ emitted' = <<>>
    /\ delivered' = <<>>
    /\ fullContent' = ""
    /\ convFullContent' = ""
    /\ outcome' = NoOutcome
    /\ messages' = addMessage(messages, "assistant", "")
    /\ UNCHANGED <<config, texts, listing, calls, held, provider, defaultOptions>>

\* ConversationImpl.send up to its await: LLMModule.sendConversation merges the
\* options and the adapter issues the request
Send(options) ==
    /\ Quiescent
    /\ Len(messages) <= MaxHistory
    /\ verb' = "send"
    /\ before' = messages
    /\ callOptions' = options
    /\ mergedOptions' = mergeOptions(defaultOptions, options, SendOverrides)
    /\ request' = ProviderSendConversation(provider, messages, mergedOptions')
    /\ pc' = "awaitBackend"
    /\ requests' = 1
    /\ thrown' = NoError
    /\ emitted' = <<>>
    /\ delivered' = <<>>
    /\ fullContent' = ""
    /\ convFullContent' = ""
    /\ outcome' = NoOutcome
    /\ messages' = CallerArrayAfter(messages, mergedOptions')
    /\ UNCHANGED <<config, texts, listing, calls, held, provider, defaultOptions>>

\* ConversationImpl.stream up to its await: LLMModule.streamConversation forces
\* stream and the adapter issues the streaming request
Stream(options) ==
    /\ Quiescent
    /\ Len(messages) <= MaxHistory
    /\ verb' = "stream"
    /\ before' = messages
    /\ callOptions' = options
    /\ mergedOptions' = mergeOptions(defaultOptions, options, StreamOverrides)
    /\ request' = ProviderStreamConversation(provider, messages, mergedOptions')
    /\ pc' = "awaitBackend"
    /\ requests' = 1
    /\ thrown' = NoError
    /\ emitted' = <<>>
    /\ delivered' = <<>>
    /\ fullContent' = ""
    /\ convFullContent' = ""
    /\ outcome' = NoOutcome
    /\ messages' = CallerArrayAfter(messages, mergedOptions')
    /\ UNCHANGED <<config, texts, listing, calls, held, provider, defaultOptions>>

\* the backend answers the non-streaming request: normalizeResponse, and the
\* facade's promise resolves
BackendReply(raw) ==
    /\ pc = "awaitBackend"
    /\ verb \in SendVerbs
    /\ outcome' = normalizeResponse(provider, raw)
    /\ pc' = "settled"
    /\ UNCHANGED <<config, texts, listing, calls, held, requests, thrown, provider, defaultOptions, messages, verb, before, callOptions,
                   mergedOptions, request, emitted, delivered, fullContent,
                   convFullContent>>

BackendFailRetries(e) ==
    /\ pc = "awaitBackend"
    /\ requests < 2
    /\ thrown' = e
    /\ requests' = requests + 1
    /\ UNCHANGED <<config, texts, listing, calls, held, provider, defaultOptions, messages, pc,
                   verb, before, callOptions, mergedOptions, request, emitted, delivered,
                   fullContent, convFullContent, outcome>>

BackendFailNeverSettles(e) ==
    /\ pc = "awaitBackend"
    /\ thrown' = e
    /\ pc' = "pending"
    /\ UNCHANGED <<config, texts, listing, calls, held, requests, provider, defaultOptions, messages, verb, before, callOptions,
                   mergedOptions, request, emitted, delivered, fullContent,
                   convFullContent, outcome>>

\* the backend call fails: the adapter's catch rethrows handleError(error)
BackendFail(e) ==
    /\ pc = "awaitBackend"
    /\ outcome' = HandleError(provider, e)
    /\ thrown' = e
    /\ pc' = "settled"
    /\ UNCHANGED <<config, texts, listing, calls, held, requests, provider, defaultOptions, messages, verb, before, callOptions,
                   mergedOptions, request, emitted, delivered, fullContent,
                   convFullContent>>

\* the backend answers the streaming request with a stream
StreamOpen ==
    /\ pc = "awaitBackend"
    /\ verb \in StreamVerbs
    /\ pc' = "streaming"
    /\ UNCHANGED <<config, texts, listing, calls, held, requests, thrown, provider, defaultOptions, messages, verb, before, callOptions,
                   mergedOptions, request, emitted, delivered, fullContent,
                   convFullContent, outcome>>

wrappedCallbackOverwrites(full, chunk) == chunk

\* wrappedCallback of ConversationImpl.stream: fullContent += chunk
wrappedCallback(full, chunk) == full \o chunk

\* one turn of the adapter's for await loop: the stream yields ev; a delivered
\* chunk goes through wrappedCallback to the caller's callback, which may throw
StreamEvent(ev, throws) ==
    /\ pc = "streaming"
    /\ Len(emitted) < MaxEvents
    /\ emitted' = Append(emitted, ev)
    /\ LET step == OnStreamEvent(provider, ev)
       IN  IF step.deliver
           THEN /\ fullContent' = Accumulate(fullContent, step.chunk)
                /\ convFullContent' =
                       IF verb = "stream"
                       THEN wrappedCallback(convFullContent, step.chunk)
                       ELSE convFullContent
                /\ delivered' = Append(delivered, step.chunk)
                /\ IF throws
                   THEN /\ outcome' = HandleError(provider, CallbackError)
                        /\ pc' = "settled"
                   ELSE UNCHANGED <<outcome, pc>>
           ELSE /\ ~throws
                /\ UNCHANGED <<fullContent, convFullContent, delivered, outcome, pc>>
    /\ UNCHANGED <<config, texts, listing, calls, held, requests, thrown, provider, defaultOptions, messages, verb, before, callOptions,
                   mergedOptions, request>>

StreamFailSwallowed(e) ==
    /\ pc = "streaming"
    /\ outcome' = HandleError(provider, e)
    /\ thrown' = e
    /\ pc' = "streaming"
    /\ UNCHANGED <<config, texts, listing, calls, held, requests, provider, defaultOptions, messages, verb, before, callOptions,
                   mergedOptions, request, emitted, delivered, fullContent,
                   convFullContent>>

\* the backend stream throws: the adapter's catch rethrows handleError(error)
StreamFail(e) ==
    /\ pc = "streaming"
    /\ outcome' = HandleError(provider, e)
    /\ thrown' = e
    /\ pc' = "settled"
    /\ UNCHANGED <<config, texts, listing, calls, held, requests, provider, defaultOptions, messages, verb, before, callOptions,
                   mergedOptions, request, emitted, delivered, fullContent,
                   convFullContent>>

\* the backend stream ends: return { content: fullContent, ... }
StreamEnd ==
    /\ pc = "streaming"
    /\ outcome' = StreamResponse(provider, fullContent, emitted)
    /\ pc' = "settled"
    /\ UNCHANGED <<config, texts, listing, calls, held, requests, thrown, provider, defaultOptions, messages, verb, before, callOptions,
                   mergedOptions, request, emitted, delivered, fullContent,
                   convFullContent>>

historyAfterSendAlways(msgs, out) ==
    addMessage(msgs, "assistant", IF out.kind = "response" THEN out.content ELSE "")

\* after the await of send: this.addMessage('assistant', response.content),
\* which a rejected await never reaches
historyAfterSend(msgs, out) ==
    IF out.kind = "response" THEN addMessage(msgs, "assistant", out.content) ELSE msgs

historyAfterStreamAlways(msgs, out, accumulated) ==
    addMessage(msgs, "assistant", accumulated)

\* after the await of stream: this.addMessage('assistant', fullContent)
historyAfterStream(msgs, out, accumulated) ==
    IF out.kind = "response" THEN addMessage(msgs, "assistant", accumulated) ELSE msgs

\* ConversationImpl.send resumes after its await
SendResume ==
    /\ pc = "settled"
    /\ verb = "send"
    /\ messages' = historyAfterSend(messages, outcome)
    /\ pc' = "returned"
    /\ emitted' = <<>>
    /\ UNCHANGED <<config, texts, listing, calls, held, requests, thrown, provider, defaultOptions, verb, before, callOptions, mergedOptions,
                   request, delivered, fullContent, convFullContent, outcome>>

\* ConversationImpl.stream resumes after its await
StreamResume ==
    /\ pc = "settled"
    /\ verb = "stream"
    /\ messages' = historyAfterStream(messages, outcome, convFullContent)
    /\ pc' = "returned"
    /\ emitted' = <<>>
    /\ UNCHANGED <<config, texts, listing, calls, held, requests, thrown, provider, defaultOptions, verb, before, callOptions, mergedOptions,
                   request, delivered, fullContent, convFullContent, outcome>>

Next ==
    \/ \E role \in Roles, content \in Contents : AddMessage(role, content)
    \/ \E options \in ConversationOptions : Send(options)
    \/ \E options \in ConversationOptions : Stream(options)
    \/ \E raw \in BackendReplies : BackendReply(raw)
    \/ \E e \in BackendErrors : BackendFail(e)
    \/ StreamOpen
    \/ \E ev \in StreamEvents, throws \in BOOLEAN : StreamEvent(ev, throws)
    \/ \E e \in BackendErrors : StreamFail(e)
    \/ StreamEnd
    \/ SendResume
    \/ StreamResume

Spec == Init /\ [][Next]_vars

\* ---------------------------------------------------------------- the history handed out
getHistoryReturnsInternal(msgs) == [taken |-> TRUE, array |-> msgs, alias |-> TRUE]

\* return [...this.messages]: a new array of the same messages, which shares
\* nothing with the stored one
getHistory(msgs) == [taken |-> TRUE, array |-> msgs, alias |-> FALSE]

\* ConversationImpl.getHistory, called at any time
GetHistory ==
    /\ held' = getHistory(messages)
    /\ UNCHANGED <<provider, defaultOptions, messages, pc, verb, before, callOptions,
                   mergedOptions, request, emitted, delivered, fullContent,
                   convFullContent, outcome, config, texts, listing, requests, thrown,
                   calls>>

\* what a caller does to an array it holds: push, pop, reverse
ArrayOps == {"push", "pop", "reverse"}
Reverse(a) == [i \in 1..Len(a) |-> a[Len(a) + 1 - i]]
Mutate(op, a) ==
    CASE op = "push" -> Append(a, Message("user", "x", NowISO))
      [] op = "pop" -> SubSeq(a, 1, Len(a) - 1)
      [] op = "reverse" -> Reverse(a)

\* the caller changes the array getHistory returned; an array that is the
\* stored one changes the stored history with it
CallerMutates(op) ==
    /\ held.taken
    /\ Len(held.array) <= MaxHistory + 1
    /\ Mutate(op, held.array) # held.array
    /\ held' = [held EXCEPT !.array = Mutate(op, @)]
    /\ messages' = IF held.alias THEN Mutate(op, messages) ELSE messages
    /\ UNCHANGED <<provider, defaultOptions, pc, verb, before, callOptions,
                   mergedOptions, request, emitted, delivered, fullContent,
                   convFullContent, outcome, config, texts, listing, requests, thrown,
                   calls>>

\* a conversation whose owner also takes its history and changes what it got
HistoryNext ==
    \/ \E role \in Roles, content \in Contents : AddMessage(role, content)
    \/ GetHistory
    \/ \E op \in ArrayOps : CallerMutates(op)
    \/ Send(NoOptions)
    \/ Stream(NoOptions)
    \/ BackendReply("r")
    \/ StreamOpen
    \/ StreamEvent(TextEvent("a"), FALSE)
    \/ StreamEnd
    \/ SendResume
    \/ StreamResume

HistorySpec == Init /\ [][HistoryNext]_vars

\* ---------------------------------------------------------------- a backend that answers
\* the backend request returns, fails, or opens its stream
BackendSettles ==
    \/ \E raw \in BackendReplies : BackendReply(raw)
    \/ \E e \in BackendErrors : BackendFail(e)
    \/ StreamOpen

\* the stream is finite: it ends or fails
StreamFinishes ==
    \/ StreamEnd
    \/ \E e \in BackendErrors : StreamFail(e)

\* the event loop runs the continuation of a settled await
Resumes == SendResume \/ StreamResume

\* the events of the streams of this specification
LiveEvents == {TextEvent("a"), OtherEvent}

\* send and stream calls on a conversation, one after the other
LiveNext ==
    \/ Send(NoOptions)
    \/ Stream(NoOptions)
    \/ BackendSettles
    \/ \E ev \in LiveEvents, throws \in BOOLEAN : StreamEvent(ev, throws)
    \/ StreamFinishes
    \/ Resumes

\* the conversation over a backend that eventually answers every request and
\* ends every stream, on an event loop that runs every ready continuation
LiveSpec ==
    /\ Init
    /\ [][LiveNext]_vars
    /\ WF_vars(BackendSettles)
    /\ WF_vars(StreamFinishes)
    /\ WF_vars(Resumes)

\* ---------------------------------------------------------------- options merging alone
\* a facade configured with any defaultOptions, and a verb called with any options
MergeInit ==
    /\ provider = "openai"
    /\ defaultOptions \in LLMOptions
    /\ callOptions \in LLMOptions
    /\ messages = <<>>
    /\ pc = "idle"
    /\ verb = "none"
    /\ before = <<>>
    /\ mergedOptions = NoOptions
    /\ request = NoRequest
    /\ emitted = <<>>
    /\ delivered = <<>>
    /\ fullContent = ""
    /\ convFullContent = ""
    /\ outcome = NoOutcome
    /\ config = ReadyConfig(provider)
    /\ texts = <<>>
    /\ listing = <<>>
    /\ requests = 0
    /\ thrown = NoError
    /\ calls = NoCalls
    /\ held = NoHeld

\* const mergedOptions = this.mergeOptions(options) of sendMessage and sendConversation
MergeForSend ==
    /\ pc = "idle"
    /\ verb' = "sendConversation"
    /\ mergedOptions' = mergeOptions(defaultOptions, callOptions, SendOverrides)
    /\ pc' = "merged"
    /\ UNCHANGED <<config, texts, listing, calls, held, requests, thrown, provider, defaultOptions, messages, before, callOptions, request,
                   emitted, delivered, fullContent, convFullContent, outcome>>

\* const mergedOptions = this.mergeOptions(options, { stream: true })
MergeForStream ==
    /\ pc = "idle"
    /\ verb' = "streamConversation"
    /\ mergedOptions' = mergeOptions(defaultOptions, callOptions, StreamOverrides)
    /\ pc' = "merged"
    /\ UNCHANGED <<config, texts, listing, calls, held, requests, thrown, provider, defaultOptions, messages, before, callOptions, request,
                   emitted, delivered, fullContent, convFullContent, outcome>>

MergeNext == MergeForSend \/ MergeForStream

MergeSpec == MergeInit /\ [][MergeNext]_vars

\* ---------------------------------------------------------------- requests alone
\* the arrays a caller hands to sendConversation and streamConversation
ArrayContents == {"q", "s"}
ArrayMessages ==
    {Message(r, c, NowISO) : r \in Roles, c \in ArrayContents}
MessageArrays ==
    UNION {[1..n -> ArrayMessages] : n \in 0..MaxMessages}

\* a facade of any provider, and a conversation verb called on it directly
\* with any message array and any options
RequestInit ==
    /\ provider \in Providers
    /\ defaultOptions \in ConfiguredDefaults
    /\ callOptions \in LLMOptions
    /\ messages \in MessageArrays
    /\ pc = "idle"
    /\ verb = "none"
    /\ before = <<>>
    /\ mergedOptions = NoOptions
    /\ request = NoRequest
    /\ emitted = <<>>
    /\ delivered = <<>>
    /\ fullContent = ""
    /\ convFullContent = ""
    /\ outcome = NoOutcome
    /\ config = ReadyConfig(provider)
    /\ texts = <<>>
    /\ listing = <<>>
    /\ requests = 0
    /\ thrown = NoError
    /\ calls = NoCalls
    /\ held = NoHeld

\* LLMModule.sendConversation up to the adapter's await
SendConversation ==
    /\ pc = "idle"
    /\ verb' = "sendConversation"
    /\ mergedOptions' = mergeOptions(defaultOptions, callOptions, SendOverrides)
    /\ request' = ProviderSendConversation(provider, messages, mergedOptions')
    /\ pc' = "awaitBackend"
    /\ requests' = 1
    /\ thrown' = NoError
    /\ messages' = CallerArrayAfter(messages, mergedOptions')
    /\ UNCHANGED <<config, texts, listing, calls, held, provider, defaultOptions, before, callOptions,
                   emitted, delivered, fullContent, convFullContent, outcome>>

\* LLMModule.streamConversation up to the adapter's await
StreamConversation ==
    /\ pc = "idle"
    /\ verb' = "streamConversation"
    /\ mergedOptions' = mergeOptions(defaultOptions, callOptions, StreamOverrides)
    /\ request' = ProviderStreamConversation(provider, messages, mergedOptions')
    /\ pc' = "awaitBackend"
    /\ requests' = 1
    /\ thrown' = NoError
    /\ messages' = CallerArrayAfter(messages, mergedOptions')
    /\ UNCHANGED <<config, texts, listing, calls, held, provider, defaultOptions, before, callOptions,
                   emitted, delivered, fullContent, convFullContent, outcome>>

RequestNext == SendConversation \/ StreamConversation

RequestSpec == RequestInit /\ [][RequestNext]_vars

\* ---------------------------------------------------------------- the facade alone
\* the configurations a caller may hand to new LLMModule(config)
Configs ==
    {LLMConfig(kind, apiKey, endpoint, defaultModel, embeddingModel, logger) :
        kind \in Providers \cup {"azure", Undefined},
        apiKey \in {Absent, "", "k"},
        endpoint \in {Absent, "", "e"},
        defaultModel \in {Absent, "", DefaultModel},
        embeddingModel \in {Absent, "e1"},
        logger \in {Absent, "logger"}}

\* ConfigurationError of ubc-genai-toolkit-core
ConfigurationError ==
    [kind |-> "error", name |-> "ConfigurationError", code |-> Absent,
     provider |-> Absent, originalError |-> FALSE, from |-> "facade"]

\* the adapter a constructor returned
Built(name) == [kind |-> "provider", name |-> name]

\* new UbcLlmSandboxProvider(...): if (!endpoint) throw new APIError(..., 400)
UbcLlmSandboxProviderNew(cfg) ==
    IF ~Truthy(cfg.endpoint) THEN APIError("400", Absent, FALSE, "adapter")
    ELSE Built("ubc-llm-sandbox")

initializeProviderNoEndpointCheck(cfg) ==
    IF ~Truthy(cfg.logger) THEN ConfigurationError
    ELSE IF cfg.provider \in {"openai", "anthropic"}
         THEN IF ~Truthy(cfg.apiKey) \/ ~Truthy(cfg.defaultModel)
              THEN ConfigurationError ELSE Built(cfg.provider)
    ELSE IF cfg.provider = "ollama"
         THEN IF ~Truthy(cfg.defaultModel) THEN ConfigurationError ELSE Built("ollama")
    ELSE IF cfg.provider = "ubc-llm-sandbox"
         THEN IF ~Truthy(cfg.apiKey) \/ ~Truthy(cfg.defaultModel)
              THEN ConfigurationError ELSE UbcLlmSandboxProviderNew(cfg)
    ELSE ConfigurationError

\* LLMModule.initializeProvider: the switch over config.provider
initializeProvider(cfg) ==
    IF ~Truthy(cfg.logger) THEN ConfigurationError
    ELSE CASE cfg.provider = "openai" ->
                  IF ~Truthy(cfg.apiKey) THEN ConfigurationError
                  ELSE IF ~Truthy(cfg.defaultModel) THEN ConfigurationError
                  ELSE Built("openai")
           [] cfg.provider = "anthropic" ->
                  IF ~Truthy(cfg.apiKey) THEN ConfigurationError
                  ELSE IF ~Truthy(cfg.defaultModel) THEN ConfigurationError
                  ELSE Built("anthropic")
           [] cfg.provider = "ollama" ->
                  IF ~Truthy(cfg.endpoint) THEN ConfigurationError
                  ELSE IF ~Truthy(cfg.defaultModel) THEN ConfigurationError
                  ELSE Built("ollama")
           [] cfg.provider = "ubc-llm-sandbox" ->
                  IF ~Truthy(cfg.apiKey) THEN ConfigurationError
                  ELSE IF ~Truthy(cfg.endpoint) THEN ConfigurationError
                  ELSE IF ~Truthy(cfg.defaultModel) THEN ConfigurationError
                  ELSE UbcLlmSandboxProviderNew(cfg)
           [] OTHER -> ConfigurationError

\* the arrays and the single messages a caller hands to the facade's verbs
FacadeArrays ==
    {<<Message("user", "q", NowISO)>>,
     <<Message("system", "s", NowISO), Message("user", "q", NowISO)>>}

\* no facade yet: new LLMModule(config) is about to run
FacadeInit ==
    /\ config \in Configs
    /\ provider = "none"
    /\ defaultOptions = NoOptions
    /\ callOptions \in ConversationOptions
    /\ messages \in FacadeArrays
    /\ pc = "new"
    /\ verb = "none"
    /\ before = <<>>
    /\ mergedOptions = NoOptions
    /\ request = NoRequest
    /\ emitted = <<>>
    /\ delivered = <<>>
    /\ fullContent = ""
    /\ convFullContent = ""
    /\ outcome = NoOutcome
    /\ texts = <<>>
    /\ listing = <<>>
    /\ requests = 0
    /\ thrown = NoError
    /\ calls = NoCalls
    /\ held = NoHeld

\* the constructor of LLMModule: this.provider = this.initializeProvider(), or
\* the error it throws
Construct ==
    /\ pc = "new"
    /\ LET built == initializeProvider(config)
       IN  IF built.kind = "provider"
           THEN /\ provider' = built.name
                /\ pc' = "idle"
                /\ outcome' = outcome
           ELSE /\ provider' = provider
                /\ pc' = "failed"
                /\ outcome' = built
    /\ UNCHANGED <<config, texts, listing, calls, held, requests, thrown, defaultOptions,
                   messages, verb, before, callOptions, mergedOptions, request,
                   emitted, delivered, fullContent, convFullContent>>

\* sendMessage of the OpenAI, Ollama and sandbox adapters: the user message,
\* led by the system prompt when one is set
SendMessageArray(message, o) ==
    IF Truthy(Get(o, "systemPrompt"))
    THEN <<Message("system", o["systemPrompt"], Absent), Message("user", message, Absent)>>
    ELSE <<Message("user", message, Absent)>>

ProviderSendMessageDropsOptions(p, message, o) ==
    ProviderSendConversation(p, <<Message("user", message, Absent)>>, NoOptions)

\* this.provider.sendMessage(message, mergedOptions): every adapter delegates
\* to its sendConversation
ProviderSendMessage(p, message, o) ==
    IF p = "anthropic"
    THEN ProviderSendConversation(p, <<Message("user", message, Absent)>>, o)
    ELSE ProviderSendConversation(p, SendMessageArray(message, o), o)

\* EmbeddingOptions: model, truncate, and passthrough fields such as
\* dimensions, or fields named like those the adapters compute themselves
EmbedOptionKeys == {"model", "truncate", "dimensions", "encoding_format", "input"}
NoEmbeddingOptions == [k \in EmbedOptionKeys |-> Absent]
EmbeddingOptions ==
    {NoEmbeddingOptions,
     [NoEmbeddingOptions EXCEPT !["model"] = "e2"],
     [NoEmbeddingOptions EXCEPT !["truncate"] = "true", !["dimensions"] = "256"]}

\* what an adapter hands to embeddings.create or to ollama's embed
EmbeddingRequest(input, model, encoding_format, truncate, dimensions) ==
    [kind |-> "embeddings", input |-> input,
     params |-> [model |-> model, encoding_format |-> encoding_format,
                 truncate |-> truncate, dimensions |-> dimensions]]

\* options?.model || this.embeddingModel || fallback
EmbeddingModelOf(o, cfg, fallback) ==
    IF Truthy(Get(o, "model")) THEN o["model"]
    ELSE IF Truthy(cfg.embeddingModel) THEN cfg.embeddingModel
    ELSE fallback

\* a passthrough value of the key input: a token standing for a list of texts
PassthroughInput == "[z]"
TextsOf(v) == IF v = PassthroughInput THEN <<"z">> ELSE <<>>

\* const { truncate, ...providerOptions } = options || {}; delete providerOptions.model
ProviderOptions(o) ==
    [k \in EmbedOptionKeys |-> IF k \in {"truncate", "model"} THEN Absent ELSE o[k]]

\* { ...computed, ...providerOptions }
SpreadProviderOptions(req, po) ==
    [req EXCEPT
        !.input = IF po["input"] # Absent THEN TextsOf(po["input"]) ELSE @,
        !.params = [k \in DOMAIN @ |-> IF po[k] # Absent THEN po[k] ELSE @[k]]]

OpenAIEmbed(cfg, ts, o) ==
    SpreadProviderOptions(
        EmbeddingRequest(ts, EmbeddingModelOf(o, cfg, "text-embedding-3-small"),
                         Absent, Absent, Absent),
        ProviderOptions(o))

AnthropicEmbedEmpty(cfg, ts, o) ==
    [kind |-> "embeddings response", embeddings |-> <<>>, provider |-> "anthropic"]

\* AnthropicProvider.embed: throw new APIError(errorMessage, 501, { provider: 'anthropic' })
AnthropicEmbed(cfg, ts, o) == APIError("501", "anthropic", FALSE, "adapter")

OllamaEmbed(cfg, ts, o) ==
    EmbeddingRequest(ts, EmbeddingModelOf(o, cfg, "nomic-embed-text"),
                     Absent, Get(o, "truncate"), Absent)

\* { model, input: texts, encoding_format: 'float', ...providerOptions }
UbcEmbed(cfg, ts, o) ==
    SpreadProviderOptions(
        EmbeddingRequest(ts, EmbeddingModelOf(o, cfg, "nomic-embed-text"),
                         "float", Absent, Absent),
        ProviderOptions(o))

\* this.provider.embed is defined: every adapter class has the method
HasEmbed(p) == p \in Providers

\* LLMModule.embed: the capability check, then this.provider.embed(texts, options)
embed(p, cfg, ts, o) ==
    IF ~HasEmbed(p) THEN APIError("501", Absent, FALSE, "facade")
    ELSE CASE p = "openai" -> OpenAIEmbed(cfg, ts, o)
           [] p = "anthropic" -> AnthropicEmbed(cfg, ts, o)
           [] p = "ollama" -> OllamaEmbed(cfg, ts, o)
           [] p = "ubc-llm-sandbox" -> UbcEmbed(cfg, ts, o)

\* the vector a backend computes for a text
Vec(t) == "vec(" \o t \o ")"

\* EmbeddingResponse
EmbeddingResponse(p, embeddings) ==
    [kind |-> "embeddings response", embeddings |-> embeddings, provider |-> p]

\* what the backend answers to an embedding request: OpenAI and the sandbox a
\* data list of one item per input in input order, Ollama the list of vectors
BackendEmbeddings(p, input) ==
    IF p = "ollama"
    THEN [embeddings |-> [i \in 1..Len(input) |-> Vec(input[i])]]
    ELSE [data |-> [i \in 1..Len(input) |->
                        [index |-> i - 1, embedding |-> Vec(input[i])]]]

normalizeEmbeddingResponseReversed(p, response) ==
    IF p = "ollama"
    THEN EmbeddingResponse(p, response.embeddings)
    ELSE EmbeddingResponse(p, [i \in 1..Len(response.data) |->
                                  response.data[Len(response.data) + 1 - i].embedding])

\* normalizeEmbeddingResponse: response.data.map((item) => item.embedding);
\* Ollama: embeddings: response.embeddings
normalizeEmbeddingResponse(p, response) ==
    IF p = "ollama"
    THEN EmbeddingResponse(p, response.embeddings)
    ELSE EmbeddingResponse(p, [i \in 1..Len(response.data) |-> response.data[i].embedding])

\* the texts a caller asks embeddings for
EmbedTexts == {"t1", "t2"}
TextLists == UNION {[1..n -> EmbedTexts] : n \in 0..MaxTexts}

\* a model of a backend's listing
ModelInfo(id) == [id |-> id, name |-> id]

\* the pages a backend may split its listing into
ModelPages == {<<ModelInfo("ma")>>, <<ModelInfo("mb"), ModelInfo("mc")>>}
Listings == UNION {[1..n -> ModelPages] : n \in 1..MaxPages}

RECURSIVE AllPages(_)
AllPages(pages) ==
    IF pages = <<>> THEN <<>> ELSE Head(pages) \o AllPages(Tail(pages))

\* models.data.map((model) => model.id): the awaited list() is its first page
OpenAIGetAvailableModels(pages) == [i \in 1..Len(pages[1]) |-> pages[1][i].id]

\* for await (const modelInfo of this.client.models.list()): every item of every page
AnthropicGetAvailableModels(pages) ==
    [i \in 1..Len(AllPages(pages)) |-> AllPages(pages)[i].id]

\* response.models.map((model) => model.name): Ollama answers with one list
OllamaGetAvailableModels(pages) == [i \in 1..Len(pages[1]) |-> pages[1][i].name]

UbcGetAvailableModels(pages) == [i \in 1..Len(pages[1]) |-> pages[1][i].id]

\* this.provider.getAvailableModels()
getAvailableModels(p, pages) ==
    CASE p = "openai" -> OpenAIGetAvailableModels(pages)
      [] p = "anthropic" -> AnthropicGetAvailableModels(pages)
      [] p = "ollama" -> OllamaGetAvailableModels(pages)
      [] p = "ubc-llm-sandbox" -> UbcGetAvailableModels(pages)

\* LLMModule.sendMessage up to the adapter's await
SendMessage(message) ==
    /\ pc = "idle"
    /\ verb' = "sendMessage"
    /\ mergedOptions' = mergeOptions(defaultOptions, callOptions, SendOverrides)
    /\ request' = ProviderSendMessage(provider, message, mergedOptions')
    /\ pc' = "awaitBackend"
    /\ requests' = 1
    /\ thrown' = NoError
    /\ UNCHANGED <<config, texts, listing, calls, held, provider, defaultOptions, messages,
                   before, callOptions, emitted, delivered, fullContent,
                   convFullContent, outcome>>

\* LLMModule.embed: rejected by the facade or the adapter, or up to the
\* adapter's await
Embed(ts, o) ==
    /\ pc = "idle"
    /\ verb' = "embed"
    /\ texts' = ts
    /\ callOptions' = o
    /\ LET r == embed(provider, config, ts, o)
       IN  IF r.kind = "embeddings"
           THEN /\ request' = r
                /\ requests' = 1
                /\ pc' = "awaitBackend"
                /\ outcome' = outcome
           ELSE /\ request' = request
                /\ requests' = 0
                /\ pc' = "settled"
                /\ outcome' = r
    /\ thrown' = NoError
    /\ UNCHANGED <<config, listing, calls, held, provider, defaultOptions, messages, before,
                   mergedOptions, emitted, delivered, fullContent, convFullContent>>

\* the backend answers the embedding request
BackendEmbedReply ==
    /\ pc = "awaitBackend"
    /\ verb = "embed"
    /\ outcome' = normalizeEmbeddingResponse(provider,
                                             BackendEmbeddings(provider, request.input))
    /\ pc' = "settled"
    /\ UNCHANGED <<config, texts, listing, calls, held, requests, thrown, provider,
                   defaultOptions, messages, verb, before, callOptions, mergedOptions,
                   request, emitted, delivered, fullContent, convFullContent>>

\* LLMModule.getAvailableModels up to the adapter's await
GetAvailableModels ==
    /\ pc = "idle"
    /\ verb' = "getAvailableModels"
    /\ pc' = "awaitBackend"
    /\ requests' = 1
    /\ thrown' = NoError
    /\ UNCHANGED <<config, texts, listing, calls, held, provider, defaultOptions, messages,
                   before, callOptions, mergedOptions, request, emitted, delivered,
                   fullContent, convFullContent, outcome>>

\* the backend answers with its listing, split into pages (Ollama's API has
\* no pages); the Anthropic client fetches a page per request while iterating
BackendListReply(pages) ==
    /\ pc = "awaitBackend"
    /\ verb = "getAvailableModels"
    /\ provider = "ollama" => Len(pages) = 1
    /\ listing' = pages
    /\ outcome' = [kind |-> "models", models |-> getAvailableModels(provider, pages)]
    /\ requests' = IF provider = "anthropic" THEN Len(pages) ELSE requests
    /\ pc' = "settled"
    /\ UNCHANGED <<config, texts, calls, held, thrown, provider, defaultOptions, messages,
                   verb, before, callOptions, mergedOptions, request, emitted,
                   delivered, fullContent, convFullContent>>

\* the single messages a caller hands to sendMessage
SingleMessages == {"q"}

FacadeNext ==
    \/ Construct
    \/ \E message \in SingleMessages : SendMessage(message)
    \/ SendConversation
    \/ StreamConversation
    \/ \E ts \in TextLists, o \in EmbeddingOptions : Embed(ts, o)
    \/ GetAvailableModels
    \/ \E raw \in BackendReplies : BackendReply(raw)
    \/ \E e \in BackendErrors : BackendFail(e)
    \/ BackendEmbedReply
    \/ \E pages \in Listings : BackendListReply(pages)
    \/ StreamOpen
    \/ \E ev \in StreamEvents, throws \in BOOLEAN : StreamEvent(ev, throws)
    \/ \E e \in BackendErrors : StreamFail(e)
    \/ StreamEnd

FacadeSpec == FacadeInit /\ [][FacadeNext]_vars

\* ---------------------------------------------------------------- the verbs and the stream flag
\* default options a facade may be configured with, stream among them
VerbDefaults ==
    {NoOptions,
     [NoOptions EXCEPT !["stream"] = "true"],
     [NoOptions EXCEPT !["stream"] = "false", !["responseFormat"] = "json"]}

\* a facade of any provider whose defaults may name stream, and one of the
\* three chat verbs called on it with any message or array and any options
VerbInit ==
    /\ provider \in Providers
    /\ defaultOptions \in VerbDefaults
    /\ callOptions \in LLMOptions
    /\ messages \in FacadeArrays
    /\ pc = "idle"
    /\ verb = "none"
    /\ before = <<>>
    /\ mergedOptions = NoOptions
    /\ request = NoRequest
    /\ emitted = <<>>
    /\ delivered = <<>>
    /\ fullContent = ""
    /\ convFullContent = ""
    /\ outcome = NoOutcome
    /\ config = ReadyConfig(provider)
    /\ texts = <<>>
    /\ listing = <<>>
    /\ requests = 0
    /\ thrown = NoError
    /\ calls = NoCalls
    /\ held = NoHeld

VerbNext ==
    \/ \E message \in ArrayContents : SendMessage(message)
    \/ SendConversation
    \/ StreamConversation

VerbSpec == VerbInit /\ [][VerbNext]_vars

\* ---------------------------------------------------------------- passthrough keys named like payload fields
\* options whose passthrough keys may be named like fields the adapters compute
PassthroughOptions ==
    [model : {Absent, "m2"},
     temperature : {Absent, "0.2"},
     maxTokens : {Absent, "50"},
     systemPrompt : {Absent, "P"},
     responseFormat : {Absent, "json"},
     stream : {Absent, "true", "false"},
     num_ctx : {Absent},
     max_tokens : {Absent, "77"},
     system : {Absent, "S"},
     response_format : {Absent, "custom"},
     messages : {Absent, PassthroughMessages}]

PassthroughEmbeddingOptions ==
    [model : {Absent, "e2"},
     truncate : {Absent, "true"},
     dimensions : {Absent, "256"},
     encoding_format : {Absent, "base64"},
     input : {Absent, PassthroughInput}]

PassthroughTexts == {<<"t1">>, <<"t1", "t2">>}

PassthroughInit ==
    /\ provider \in Providers
    /\ defaultOptions = NoOptions
    /\ callOptions \in PassthroughOptions
    /\ messages \in FacadeArrays
    /\ pc = "idle"
    /\ verb = "none"
    /\ before = <<>>
    /\ mergedOptions = NoOptions
    /\ request = NoRequest
    /\ emitted = <<>>
    /\ delivered = <<>>
    /\ fullContent = ""
    /\ convFullContent = ""
    /\ outcome = NoOutcome
    /\ config = ReadyConfig(provider)
    /\ texts = <<>>
    /\ listing = <<>>
    /\ requests = 0
    /\ thrown = NoError
    /\ calls = NoCalls
    /\ held = NoHeld

PassthroughNext ==
    \/ \E message \in SingleMessages : SendMessage(message)
    \/ SendConversation
    \/ StreamConversation
    \/ \E ts \in PassthroughTexts, o \in PassthroughEmbeddingOptions : Embed(ts, o)

PassthroughSpec == PassthroughInit /\ [][PassthroughNext]_vars

\* ---------------------------------------------------------------- calls side by side
\* Verb calls in flight on one facade.  What a call keeps between its awaits
\* are the locals of its own invocation of the facade verb and of the adapter
\* method: messages, options, the request, fullContent, the caller's callback.
CallIds == {"c1", "c2"}

IdleCall ==
    [pc |-> "idle", verb |-> "none", messages |-> <<>>, options |-> NoOptions,
     request |-> NoRequest, emitted |-> <<>>, delivered |-> <<>>,
     fullContent |-> "", outcome |-> NoOutcome]

\* the messages and options callers pass to calls in flight side by side
CallInputs ==
    {[messages |-> <<Message("user", "q", NowISO)>>, options |-> NoOptions],
     [messages |-> <<Message("system", "s", NowISO), Message("user", "q", NowISO)>>,
      options |-> [NoOptions EXCEPT !["systemPrompt"] = "P", !["num_ctx"] = "8192"]],
     [messages |-> <<Message("user", "s", NowISO)>>,
      options |-> [NoOptions EXCEPT !["systemPrompt"] = "P"]]}

\* what the backends stream to calls in flight side by side
ConcurrentEvents == {TextEvent("a"), TextEvent("b"), OtherEvent}

\* one ready facade, and no call issued yet
ConcurrentInit ==
    /\ provider \in Providers
    /\ config = ReadyConfig(provider)
    /\ defaultOptions = [NoOptions EXCEPT !["temperature"] = "0.2"]
    /\ calls = [c \in CallIds |-> IdleCall]
    /\ held = NoHeld
    /\ messages = <<>>
    /\ pc = "idle"
    /\ verb = "none"
    /\ before = <<>>
    /\ callOptions = NoOptions
    /\ mergedOptions = NoOptions
    /\ request = NoRequest
    /\ emitted = <<>>
    /\ delivered = <<>>
    /\ fullContent = ""
    /\ convFullContent = ""
    /\ outcome = NoOutcome
    /\ texts = <<>>
    /\ listing = <<>>
    /\ requests = 0
    /\ thrown = NoError

\* everything but the calls in flight
FacadeVars ==
    <<provider, defaultOptions, messages, pc, verb, before, callOptions, mergedOptions,
      request, emitted, delivered, fullContent, convFullContent, outcome,
      config, texts, listing, requests, thrown, held>>

AccumulatorOfFirstCall(cs, c) == cs["c1"].fullContent

\* let fullContent = '' is a local of each invocation of streamConversation
AccumulatorOf(cs, c) == cs[c].fullContent

\* call c enters LLMModule.sendConversation: options merged, request issued
CallSendConversation(c, msgs, options) ==
    /\ calls[c].pc = "idle"
    /\ calls' = [calls EXCEPT ![c] =
                    [@ EXCEPT !.pc = "awaitBackend", !.verb = "sendConversation",
                              !.messages = msgs, !.options = options,
                              !.request = ProviderSendConversation(provider, msgs,
                                  mergeOptions(defaultOptions, options, SendOverrides))]]
    /\ UNCHANGED FacadeVars

\* call c enters LLMModule.streamConversation and its backend opens the stream
CallStreamConversation(c, msgs, options) ==
    /\ calls[c].pc = "idle"
    /\ calls' = [calls EXCEPT ![c] =
                    [@ EXCEPT !.pc = "streaming", !.verb = "streamConversation",
                              !.messages = msgs, !.options = options,
                              !.request = ProviderStreamConversation(provider, msgs,
                                  mergeOptions(defaultOptions, options, StreamOverrides))]]
    /\ UNCHANGED FacadeVars

\* the backend answers call c's request
CallReply(c, raw) ==
    /\ calls[c].pc = "awaitBackend"
    /\ calls' = [calls EXCEPT ![c] =
                    [@ EXCEPT !.pc = "settled", !.outcome = normalizeResponse(provider, raw)]]
    /\ UNCHANGED FacadeVars

\* call c's stream yields one event to call c's loop
CallStreamEvent(c, ev) ==
    /\ calls[c].pc = "streaming"
    /\ Len(calls[c].emitted) < MaxEvents
    /\ LET step == OnStreamEvent(provider, ev)
       IN  calls' = [calls EXCEPT ![c] =
                        IF step.deliver
                        THEN [@ EXCEPT !.emitted = Append(@, ev),
                                       !.fullContent =
                                           Accumulate(AccumulatorOf(calls, c), step.chunk),
                                       !.delivered = Append(@, step.chunk)]
                        ELSE [@ EXCEPT !.emitted = Append(@, ev)]]
    /\ UNCHANGED FacadeVars

\* call c's stream ends
CallStreamEnd(c) ==
    /\ calls[c].pc = "streaming"
    /\ calls' = [calls EXCEPT ![c] =
                    [@ EXCEPT !.pc = "settled",
                              !.outcome = StreamResponse(provider, calls[c].fullContent,
                                                         calls[c].emitted)]]
    /\ UNCHANGED FacadeVars

\* call c's backend request or stream fails
CallFail(c, e) ==
    /\ calls[c].pc \in {"awaitBackend", "streaming"}
    /\ calls' = [calls EXCEPT ![c] =
                    [@ EXCEPT !.pc = "settled", !.outcome = HandleError(provider, e)]]
    /\ UNCHANGED FacadeVars

ConcurrentNext ==
    \/ \E c \in CallIds, in \in CallInputs :
           CallSendConversation(c, in.messages, in.options)
    \/ \E c \in CallIds, in \in CallInputs :
           CallStreamConversation(c, in.messages, in.options)
    \/ \E c \in CallIds, raw \in BackendReplies : CallReply(c, raw)
    \/ \E c \in CallIds, ev \in ConcurrentEvents : CallStreamEvent(c, ev)
    \/ \E c \in CallIds : CallStreamEnd(c)
    \/ \E c \in CallIds : CallFail(c, RawError("SDKAPIError", "429", "backend"))

ConcurrentSpec == ConcurrentInit /\ [][ConcurrentNext]_vars

\* ---------------------------------------------------------------- send and stream calls that overlap
\* Calls of send and stream in flight together on one conversation.  The
\* conversation has one messages array; each invocation has its own locals:
\* the request the adapter built before its await, the adapter's fullContent,
\* and fullContent and wrappedCallback of ConversationImpl.stream.
IdleConversationCall ==
    [pc |-> "idle", verb |-> "none", messages |-> <<>>, options |-> NoOptions,
     request |-> NoRequest, emitted |-> <<>>, delivered |-> <<>>,
     fullContent |-> "", outcome |-> NoOutcome, convFullContent |-> ""]

\* what the backend streams to each of the overlapping calls
OverlapEvent(c) == TextEvent(IF c = "c1" THEN "a" ELSE "b")

\* one conversation on a ready facade, and no call issued yet
OverlapInit ==
    /\ provider \in Providers
    /\ config = ReadyConfig(provider)
    /\ defaultOptions = NoOptions
    /\ calls = [c \in CallIds |-> IdleConversationCall]
    /\ held = NoHeld
    /\ messages = <<>>
    /\ pc = "idle"
    /\ verb = "none"
    /\ before = <<>>
    /\ callOptions = NoOptions
    /\ mergedOptions = NoOptions
    /\ request = NoRequest
    /\ emitted = <<>>
    /\ delivered = <<>>
    /\ fullContent = ""
    /\ convFullContent = ""
    /\ outcome = NoOutcome
    /\ texts = <<>>
    /\ listing = <<>>
    /\ requests = 0
    /\ thrown = NoError

\* call c of ConversationImpl.send: sendConversation(this.messages, options)
\* runs up to the adapter's await, which has mapped the array into the request
ConversationSend(c, options) ==
    CallSendConversation(c, messages, options)

\* call c of ConversationImpl.stream, up to the open stream
ConversationStream(c, options) ==
    CallStreamConversation(c, messages, options)

\* call c's stream yields one event: the adapter's loop passes a chunk to
\* call c's wrappedCallback
ConversationStreamEvent(c, ev) ==
    /\ calls[c].pc = "streaming"
    /\ Len(calls[c].emitted) < MaxEvents
    /\ LET step == OnStreamEvent(provider, ev)
       IN  calls' = [calls EXCEPT ![c] =
                        IF step.deliver
                        THEN [@ EXCEPT !.emitted = Append(@, ev),
                                       !.fullContent =
                                           Accumulate(AccumulatorOf(calls, c), step.chunk),
                                       !.convFullContent = wrappedCallback(@, step.chunk),
                                       !.delivered = Append(@, step.chunk)]
                        ELSE [@ EXCEPT !.emitted = Append(@, ev)]]
    /\ UNCHANGED FacadeVars

HistoryAfterCallFromSnapshot(msgs, call) ==
    IF call.verb = "sendConversation"
    THEN historyAfterSend(call.messages, call.outcome)
    ELSE historyAfterStream(call.messages, call.outcome, call.convFullContent)

\* this.addMessage('assistant', ...) after the await: a push onto the
\* conversation's array as it is when the call resumes
HistoryAfterCall(msgs, call) ==
    IF call.verb = "sendConversation"
    THEN historyAfterSend(msgs, call.outcome)
    ELSE historyAfterStream(msgs, call.outcome, call.convFullContent)

\* call c of send or stream resumes after its await
ConversationResume(c) ==
    /\ calls[c].pc = "settled"
    /\ messages' = HistoryAfterCall(messages, calls[c])
    /\ calls' = [calls EXCEPT ![c] = [@ EXCEPT !.pc = "returned"]]
    /\ UNCHANGED <<provider, defaultOptions, pc, verb, before, callOptions, mergedOptions,
                   request, emitted, delivered, fullContent, convFullContent, outcome,
                   config, texts, listing, requests, thrown, held>>

OverlapNext ==
    \/ \E role \in Roles, content \in Contents : AddMessage(role, content)
    \/ \E c \in CallIds : ConversationSend(c, NoOptions)
    \/ \E c \in CallIds : ConversationStream(c, NoOptions)
    \/ \E c \in CallIds, raw \in BackendReplies : CallReply(c, raw)
    \/ \E c \in CallIds : ConversationStreamEvent(c, OverlapEvent(c))
    \/ \E c \in CallIds : CallStreamEnd(c)
    \/ \E c \in CallIds : CallFail(c, RawError("SDKAPIError", "429", "backend"))
    \/ \E c \in CallIds : ConversationResume(c)

OverlapSpec == OverlapInit /\ [][OverlapNext]_vars

\* ---------------------------------------------------------------- properties
RECURSIVE ConcatAll(_)
ConcatAll(chunks) ==
    IF chunks = <<>> THEN "" ELSE Head(chunks) \o ConcatAll(Tail(chunks))

\* the text fragments among the events of a stream, in order
RECURSIVE TextFragments(_)
TextFragments(evs) ==
    IF evs = <<>> THEN <<>>
    ELSE (IF Head(evs).type = "text" THEN <<Head(evs).text>> ELSE <<>>)
         \o TextFragments(Tail(evs))

NonEmpty(f) == f # ""

AppendedOneAssistant(content) ==
    /\ Len(messages) = Len(before) + 1
    /\ SubSeq(messages, 1, Len(before)) = before
    /\ messages[Len(messages)].role = "assistant"
    /\ messages[Len(messages)].content = content

\* C1: when the facade's sendConversation rejects, the history after
\* Conversation.send has the same messages, in the same order, as before the call.
C1_SendFailureLeavesHistory ==
    (verb = "send" /\ pc = "returned" /\ outcome.kind = "error") => messages = before

C1_Witness ==
    verb = "send" /\ pc = "returned" /\ outcome.kind = "error" /\ Len(before) >= 1

\* C2: when Conversation.stream fails after k >= 0 fragments reached the caller's
\* callback, the call rejects and the history is what it was before the call.
C2_StreamFailureLeavesHistory ==
    (verb = "stream" /\ pc = "returned" /\ outcome.kind = "error") => messages = before

C2_Witness ==
    /\ verb = "stream" /\ pc = "returned" /\ outcome.kind = "error"
    /\ Len(delivered) >= 1 /\ convFullContent # "" /\ Len(before) >= 1

\* C3: Conversation.send leaves the history untouched while the backend call is
\* outstanding and until the facade's promise has settled; after a successful
\* call the history is the old one plus exactly one assistant message holding
\* the response's content.
C3_SendAppendsAfterSuccess ==
    verb = "send" =>
        /\ pc \in {"awaitBackend", "settled"} => messages = before
        /\ (pc = "returned" /\ outcome.kind = "response") =>
               AppendedOneAssistant(outcome.content)

C3_Witness ==
    /\ verb = "send" /\ pc = "returned" /\ outcome.kind = "response"
    /\ outcome.content = "r" /\ Len(before) >= 1

\* C4: a successful Conversation.stream appends exactly one assistant message,
\* whose content is the concatenation, in delivery order, of the chunks the
\* caller's callback was invoked with, and that is the returned response's content.
C4_StreamAppendsWhatWasDelivered ==
    (verb = "stream" /\ pc = "returned" /\ outcome.kind = "response") =>
        /\ AppendedOneAssistant(ConcatAll(delivered))
        /\ outcome.content = ConcatAll(delivered)

C4_Witness ==
    /\ verb = "stream" /\ pc = "returned" /\ outcome.kind = "response"
    /\ Len(delivered) >= 2 /\ delivered[1] # delivered[2]

\* C5 as stated: for every adapter, a completed stream has invoked the callback
\* once per text fragment the backend emitted, in order, and the response's
\* content is their concatenation.
C5_EveryFragmentDelivered ==
    (verb = "stream" /\ pc = "settled" /\ outcome.kind = "response") =>
        /\ delivered = TextFragments(emitted)
        /\ outcome.content = ConcatAll(TextFragments(emitted))

\* the fragments an adapter passes on: the Anthropic adapter every text_delta,
\* the other three the non-empty ones
Deliverable(p, fragments) ==
    IF p = "anthropic" THEN fragments ELSE SelectSeq(fragments, NonEmpty)

\* C5, amended: a completed stream has invoked the callback once per non-empty
\* text fragment (Anthropic: once per text fragment, empty or not), in the
\* order emitted, unmerged and unsplit, and the response's content is the
\* concatenation of all the fragments.
C5_NonEmptyFragmentsDelivered ==
    (verb = "stream" /\ pc = "settled" /\ outcome.kind = "response") =>
        /\ delivered = Deliverable(provider, TextFragments(emitted))
        /\ outcome.content = ConcatAll(TextFragments(emitted))

C5_Witness ==
    /\ verb = "stream" /\ pc = "settled" /\ outcome.kind = "response"
    /\ Len(emitted) >= 2 /\ Len(delivered) >= 2 /\ delivered[1] # delivered[2]

\* the streaming call has failed on the backend's side
StreamFailed == verb = "stream" /\ outcome.kind = "error" /\ outcome.from = "backend"

\* C6: once the backend stream has failed, streamConversation has rejected with
\* an error that carries no response content, and from then on the callback is
\* not invoked again and the chunks already delivered stay as they are.
C6_NoCallbackAfterFailure ==
    [][/\ StreamFailed =>
            /\ pc \in {"settled", "returned"}
            /\ outcome.name = "APIError"
            /\ "content" \notin DOMAIN outcome
       /\ (StreamFailed /\ StreamFailed') => delivered' = delivered]_vars

C6_Witness ==
    StreamFailed /\ pc = "settled" /\ Len(delivered) >= 1 /\ fullContent # ""

\* C7: the options handed to the adapter are, key by key, the value of the last
\* of {model: defaultModel}, defaultOptions, the call's options and the verb's
\* forced overrides (stream = true for streamConversation) that carries the key.
C7_MergeOrder ==
    pc = "merged" =>
        \A k \in OptionKeys :
            mergedOptions[k] =
                IF verb = "streamConversation" /\ k = "stream" THEN "true"
                ELSE IF callOptions[k] # Absent THEN callOptions[k]
                ELSE IF defaultOptions[k] # Absent THEN defaultOptions[k]
                ELSE IF k = "model" THEN DefaultModel
                ELSE Absent

C7_Witness ==
    /\ pc = "merged" /\ verb = "streamConversation"
    /\ callOptions["stream"] = "false"
    /\ defaultOptions["temperature"] = "0.2" /\ callOptions["temperature"] = "0.9"
    /\ defaultOptions["maxTokens"] = "50"

\* C8 as stated: for every adapter and both conversation verbs, an option key
\* outside the known set reaches the request under its own key with its own
\* value, and under no other key.
C8_PassthroughForwarded ==
    pc = "awaitBackend" =>
        \A k \in PassthroughKeys :
            mergedOptions[k] # Absent =>
                /\ request.params[k] = mergedOptions[k]
                /\ \A other \in ParamKeys \ {k} : request.params[other] # mergedOptions[k]

SystemCount(msgs) == Cardinality({i \in 1..Len(msgs) : msgs[i].role = "system"})

\* the system instructions a request carries: system messages and the system parameter
SystemInstructions(req) ==
    SystemCount(req.messages) + (IF Truthy(req.params["system"]) THEN 1 ELSE 0)

\* C9: when the messages already hold a system message and systemPrompt is
\* non-empty, the request carries no more system instructions than the input
\* has system messages.
C9_NoSecondSystemInstruction ==
    (pc = "awaitBackend" /\ HasSystem(messages) /\ Truthy(Get(mergedOptions, "systemPrompt"))) =>
        SystemInstructions(request) <= SystemCount(messages)

C9_Witness ==
    /\ pc = "awaitBackend" /\ HasSystem(messages) /\ Len(messages) >= 2
    /\ Truthy(Get(mergedOptions, "systemPrompt")) /\ provider = "openai"

\* what the backend is told, in order: the system parameter, then the messages
SentInstructions(req) ==
    (IF Truthy(req.params["system"]) THEN <<SystemMessage(req.params["system"])>> ELSE <<>>)
    \o req.messages

\* C10 as stated: for every adapter, what is sent is the conversation's messages
\* in order, led by systemPrompt exactly when it is set and the messages hold
\* no system message.
C10_MessagesSentInOrder ==
    pc = "awaitBackend" =>
        SentInstructions(request) =
            (IF Truthy(Get(mergedOptions, "systemPrompt")) /\ ~HasSystem(messages)
             THEN <<SystemMessage(mergedOptions["systemPrompt"])>> ELSE <<>>)
            \o ToWire(messages)

\* C11 as stated: in the Anthropic adapter the request's message list holds no
\* system message, and a system message of the input reaches the backend in the
\* system parameter (read here on inputs with one system message and no
\* systemPrompt, where the parameter can only be that message's content).
C11_SystemMessagesViaParameter ==
    (pc = "awaitBackend" /\ provider = "anthropic") =>
        /\ ~HasSystem(request.messages)
        /\ (SystemCount(messages) = 1 /\ ~Truthy(Get(mergedOptions, "systemPrompt"))) =>
               \A i \in 1..Len(messages) :
                   messages[i].role = "system" =>
                       request.params["system"] = messages[i].content

\* C12: a call with systemPrompt set leaves the array the caller passed in (for
\* a conversation: its stored history) as it was, and the history never holds a
\* system message other than the ones addMessage put there: after the call it
\* is the old history, or the old history plus one assistant reply.
C12_InjectionIsRequestScoped ==
    /\ (verb \in {"send", "stream"} /\ pc \in {"awaitBackend", "streaming", "settled"}) =>
           messages = before
    /\ (verb \in {"send", "stream"} /\ pc = "returned") =>
           \/ messages = before
           \/ /\ Len(messages) = Len(before) + 1
              /\ SubSeq(messages, 1, Len(before)) = before
              /\ messages[Len(messages)].role = "assistant"
    /\ \A i \in 1..Len(messages) :
           /\ messages[i].timestamp = NowISO
           /\ messages[i].role = "system" => messages[i].content \in Contents

C12_Witness ==
    /\ verb = "send" /\ pc = "returned" /\ outcome.kind = "response"
    /\ provider = "openai" /\ Truthy(Get(mergedOptions, "systemPrompt"))
    /\ Len(before) >= 1 /\ ~HasSystem(before)
    /\ request.messages[1] = SystemMessage(mergedOptions["systemPrompt"])

\* a configuration field that is not there
Missing(v) == v \in {Absent, Undefined}

\* the fields each provider kind requires
RequiredFields(kind) ==
    CASE kind \in {"openai", "anthropic"} -> {"apiKey", "defaultModel"}
      [] kind = "ollama" -> {"endpoint", "defaultModel"}
      [] kind = "ubc-llm-sandbox" -> {"apiKey", "endpoint", "defaultModel"}
      [] OTHER -> {}

InvalidConfig(cfg) ==
    \/ cfg.provider \notin Providers
    \/ \E f \in RequiredFields(cfg.provider) : Missing(cfg[f])

EmbedCapable(p) == p \in {"openai", "ollama", "ubc-llm-sandbox"}

\* C14: embed on a facade whose adapter cannot embed (the Anthropic adapter)
\* is rejected with an APIError of status 501: nothing is returned, no request
\* goes to the backend and no other kind of error is raised.
C14_EmbedWithoutCapabilityIs501 ==
    (verb = "embed" /\ ~EmbedCapable(provider)) =>
        /\ pc = "settled"
        /\ outcome.kind = "error" /\ outcome.name = "APIError" /\ outcome.code = "501"
        /\ "embeddings" \notin DOMAIN outcome
        /\ requests = 0 /\ request = NoRequest

C14_Witness ==
    /\ verb = "embed" /\ provider = "anthropic" /\ Len(texts) >= 1
    /\ pc = "settled" /\ outcome.code = "501"

\* the code the claim expects for a thrown error: its HTTP status, else 500
ExpectedCode(e) == IF Truthy(e.status) THEN e.status ELSE "500"

\* C15 as stated: whatever the backend throws at any verb of any adapter, the
\* verb rejects with an APIError whose code is the HTTP status when there is
\* one and 500 otherwise, and whose details name the provider and hold the
\* original error.
C15_BackendFailuresWrapped ==
    (thrown # NoError) =>
        /\ pc = "settled"
        /\ outcome.kind = "error" /\ outcome.name = "APIError"
        /\ outcome.code = ExpectedCode(thrown)
        /\ outcome.provider = provider
        /\ outcome.originalError

\* the verbs that issue one request to the backend client
OneRequestVerbs == {"sendMessage", "sendConversation", "streamConversation", "embed"}

\* C16: one call of sendMessage, sendConversation, streamConversation or embed
\* issues at most one backend request, and once that request has failed the
\* call is rejected with no further request issued.
C16_NoRetry ==
    verb \in OneRequestVerbs =>
        /\ requests <= 1
        /\ (thrown # NoError) =>
               /\ pc = "settled" /\ outcome.kind = "error"
               /\ requests = 1

C16_Witness ==
    /\ verb = "embed" /\ thrown # NoError /\ pc = "settled"
    /\ requests = 1 /\ Len(texts) >= 2

\* C17: for the adapters that embed (OpenAI, Ollama, sandbox), the embeddings
\* returned for the texts t1..tn are n vectors, the i-th being the vector of ti.
C17_EmbeddingsFollowInputOrder ==
    (verb = "embed" /\ pc = "settled" /\ outcome.kind = "embeddings response") =>
        /\ Len(outcome.embeddings) = Len(texts)
        /\ \A i \in 1..Len(texts) : outcome.embeddings[i] = Vec(texts[i])

C17_Witness ==
    /\ verb = "embed" /\ pc = "settled" /\ outcome.kind = "embeddings response"
    /\ provider = "ubc-llm-sandbox"
    /\ Len(texts) >= 2 /\ texts[1] # texts[2]
    /\ outcome.embeddings[2] = Vec(texts[2])

\* the identifiers of all the models of a listing, page after page
AllModelIds(pages) == [i \in 1..Len(AllPages(pages)) |-> AllPages(pages)[i].id]

\* C18 as stated: for every adapter, getAvailableModels returns the identifiers
\* of the models of every page of the backend's listing, in one flat sequence.
C18_AllPagesListed ==
    (verb = "getAvailableModels" /\ pc = "settled" /\ outcome.kind = "models") =>
        outcome.models = AllModelIds(listing)

\* a completed streaming call
StreamCompleted ==
    verb \in StreamVerbs /\ pc = "settled" /\ outcome.kind = "response"

\* a usage that tells no token count: no usage at all, or three undefined counts
NoCounts(usage) ==
    /\ usage.promptTokens = Undefined
    /\ usage.completionTokens = Undefined
    /\ usage.totalTokens = Undefined

HasDonePart(evs) == \E i \in 1..Len(evs) : evs[i].type = "done"

CallIsItsOwn(c) ==
    /\ calls[c].verb = "streamConversation" =>
           /\ calls[c].request =
                  ProviderStreamConversation(provider, calls[c].messages,
                      mergeOptions(defaultOptions, calls[c].options, StreamOverrides))
           /\ calls[c].delivered = Deliverable(provider, TextFragments(calls[c].emitted))
           /\ calls[c].fullContent = ConcatAll(TextFragments(calls[c].emitted))
           /\ calls[c].outcome.kind = "response" =>
                  calls[c].outcome.content = ConcatAll(TextFragments(calls[c].emitted))
    /\ calls[c].verb = "sendConversation" =>
           /\ calls[c].request =
                  ProviderSendConversation(provider, calls[c].messages,
                      mergeOptions(defaultOptions, calls[c].options, SendOverrides))
           /\ calls[c].delivered = <<>>

\* C19: however the steps of the calls in flight on one facade interleave, each
\* call's callback gets the fragments of its own stream only, each call's
\* content is the concatenation of its own fragments, each call's request is
\* built from its own messages and options, and the facade's config and
\* defaultOptions stay what the facade was built with.
C19_CallsAreIndependent ==
    /\ \A c \in CallIds : CallIsItsOwn(c)
    /\ config = ReadyConfig(provider)
    /\ defaultOptions = [NoOptions EXCEPT !["temperature"] = "0.2"]

C19_Witness ==
    /\ calls["c1"].pc = "settled" /\ calls["c1"].outcome.kind = "response"
    /\ calls["c1"].verb = "streamConversation" /\ Len(calls["c1"].delivered) >= 2
    /\ calls["c2"].pc = "streaming" /\ Len(calls["c2"].delivered) >= 1
    /\ calls["c2"].delivered[1] # calls["c1"].delivered[1]
    /\ calls["c2"].messages # calls["c1"].messages
    /\ calls["c2"].options # calls["c1"].options

\* the chat verbs, and the adapters that spread the passthrough fields
ChatVerbs == {"sendMessage", "sendConversation", "streamConversation"}
Spreading == {"openai", "anthropic", "ubc-llm-sandbox"}

\* C21 as stated: every embedding request the sandbox adapter sends carries
\* encoding_format 'float', whatever the texts and the embedding options,
\* passthrough fields included.
C21_SandboxEmbeddingsAreFloat ==
    (verb = "embed" /\ provider = "ubc-llm-sandbox" /\ pc = "awaitBackend")
        => request.params.encoding_format = "float"

\* C22: the verb sets the streaming mode: a request of sendMessage or
\* sendConversation is sent with stream false and a request of
\* streamConversation with stream true, whatever stream is in the default
\* options or in the options of the call.
C22_VerbSetsStreamFlag ==
    (pc = "awaitBackend" /\ verb \in ChatVerbs)
        => request.params["stream"] =
               (IF verb = "streamConversation" THEN "true" ELSE "false")

C22_Witness ==
    /\ pc = "awaitBackend"
    /\ verb = "sendConversation"
    /\ callOptions["stream"] = "true"
    /\ defaultOptions["stream"] = "true"
    /\ request.params["stream"] = "false"

\* the model the embedding adapter of provider p falls back to
EmbeddingFallback(p) == IF p = "openai" THEN "text-embedding-3-small" ELSE "nomic-embed-text"

C24_SendMessageIsSendConversation ==
    (pc = "awaitBackend" /\ verb = "sendMessage") =>
        /\ \E t \in ArrayContents :
               request = ProviderSendConversation(provider,
                             <<Message("user", t, Absent)>>, mergedOptions)
        /\ Truthy(Get(mergedOptions, "systemPrompt")) => SystemInstructions(request) = 1

C24_Witness ==
    /\ pc = "awaitBackend"
    /\ verb = "sendMessage"
    /\ provider = "openai"
    /\ mergedOptions["systemPrompt"] = "P"
    /\ mergedOptions["temperature"] = "0.9"
    /\ request.messages = <<SystemMessage("P"), [role |-> "user", content |-> "s"]>>

\* C30: in the OpenAI and sandbox adapters only sendConversation translates
\* responseFormat 'json' into JSON mode: for the same messages and options the
\* payload of streamConversation is that of sendConversation with stream true
\* and without response_format; the Ollama adapter sends format on both verbs.
C30_JsonModeOnlyOnSend ==
    /\ (pc = "awaitBackend" /\ verb = "sendConversation"
            /\ provider \in {"openai", "ubc-llm-sandbox"}
            /\ mergedOptions["responseFormat"] = "json")
          => request.params["response_format"] = "json_object"
    /\ (pc = "awaitBackend" /\ verb = "streamConversation"
            /\ provider \in {"openai", "ubc-llm-sandbox", "ollama"}) =>
          LET s == ProviderSendConversation(provider, messages, mergedOptions)
          IN  /\ request.messages = s.messages
              /\ provider # "ollama" =>
                    request.params = [s.params EXCEPT !["stream"] = "true",
                                                      !["response_format"] = Absent]
              /\ provider = "ollama" =>
                    /\ request.params = [s.params EXCEPT !["stream"] = "true"]
                    /\ mergedOptions["responseFormat"] = "json"
                          => request.params["format"] = "json"

C30_Witness ==
    /\ pc = "awaitBackend"
    /\ verb = "streamConversation"
    /\ provider = "ubc-llm-sandbox"
    /\ mergedOptions["responseFormat"] = "json"
    /\ request.params["response_format"] = Absent
    /\ request.params["stream"] = "true"

\* C25: the history is append-only: every step leaves the history before it a
\* prefix of the history after it; addMessage grows it by exactly one message,
\* a successful send or stream by exactly one assistant message, a failed one
\* by none, and no other step changes it.
C25_HistoryAppendOnly ==
    [][/\ Len(messages') >= Len(messages)
       /\ SubSeq(messages', 1, Len(messages)) = messages
       /\ pc' = "idle" => Len(messages') = Len(messages) + 1
       /\ (pc = "settled" /\ pc' = "returned" /\ outcome.kind = "response") =>
              /\ Len(messages') = Len(messages) + 1
              /\ messages'[Len(messages')].role = "assistant"
       /\ (pc = "settled" /\ pc' = "returned" /\ outcome.kind = "error") =>
              messages' = messages
       /\ pc' \notin {"idle", "returned"} => messages' = messages]_vars

C25_Witness ==
    /\ pc = "returned"
    /\ outcome.kind = "response"
    /\ Len(before) >= 1
    /\ Len(messages) = Len(before) + 1
    /\ SubSeq(messages, 1, Len(before)) = before
    /\ messages[Len(messages)].role = "assistant"

\* the caller's callback has thrown during Conversation.stream
CallbackFailed == verb = "stream" /\ outcome.kind = "error" /\ outcome.from = "callback"

\* C27: when the caller's callback throws during Conversation.stream, the
\* adapter's loop catches it and the call rejects with an APIError; no further
\* fragment is delivered and the history stays as it was before the call,
\* although the fragment had been added to the conversation's accumulator.
C27_CallbackThrowIsAPIError ==
    [][/\ CallbackFailed =>
            /\ pc \in {"settled", "returned"}
            /\ outcome.name = "APIError"
            /\ messages = before
            /\ Len(delivered) >= 1
            /\ convFullContent = ConcatAll(delivered)
       /\ (CallbackFailed /\ CallbackFailed') =>
            /\ delivered' = delivered
            /\ messages' = messages]_vars

C27_Witness ==
    /\ CallbackFailed
    /\ pc = "returned"
    /\ Len(delivered) = 2
    /\ convFullContent = "ab"
    /\ Len(before) >= 1
    /\ messages = before

\* C23: over a backend that eventually answers and whose streams are finite,
\* every issued send or stream call, and the facade call under it, eventually
\* completes: the conversation call has returned with a response or an error.
C23_CallsComplete ==
    (pc \in {"awaitBackend", "streaming", "settled"})
        ~> (pc = "returned" /\ outcome.kind \in {"response", "error"})

C23_Witness ==
    /\ pc = "returned"
    /\ verb = "stream"
    /\ outcome.kind = "response"
    /\ Len(delivered) = MaxEvents

\* C26: getHistory returns a copy: a step that changes the array a caller
\* holds changes neither the stored history nor the request in flight, a later
\* getHistory returns the stored history, and a later send or stream sends it.
C26_GetHistoryReturnsCopy ==
    [][/\ held' # held => (messages' = messages /\ request' = request)
       /\ (\E op \in ArrayOps : CallerMutates(op)) => messages' = messages
       /\ GetHistory => held'.array = messages
       /\ (pc \in {"idle", "returned"} /\ pc' = "awaitBackend") =>
             request' = (IF verb' = "send"
                         THEN ProviderSendConversation(provider, messages, mergedOptions')
                         ELSE ProviderStreamConversation(provider, messages, mergedOptions'))]_vars

C26_Witness ==
    /\ held.taken
    /\ held.array = <<>>
    /\ pc = "returned"
    /\ verb = "stream"
    /\ Len(before) = 1
    /\ Len(messages) = 2

\* call c is in flight: issued and not yet returned
InFlight(cs, c) == cs[c].pc \in {"awaitBackend", "streaming", "settled"}

\* the assistant message a successful call appends
ReplyOf(call) ==
    Message("assistant",
            IF call.verb = "sendConversation" THEN call.outcome.content
            ELSE ConcatAll(call.delivered),
            NowISO)

\* C28: when send and stream calls on one conversation overlap, nothing stored
\* is lost or overwritten: the history a call was issued on stays a prefix of
\* the history, a call that completes successfully appends exactly its own
\* assistant message to the history as it is then (so replies follow in
\* completion order), a failed one appends nothing, a stream call's text is the
\* fragments of its own stream, and the request of a call issued while another
\* is in flight is built from the history without that other call's reply and
\* stays as it was when the other call completes.
C28_OverlappingCallsKeepHistory ==
    [][\A c \in CallIds :
        /\ calls[c].pc # "idle" =>
              /\ Len(messages) >= Len(calls[c].messages)
              /\ SubSeq(messages, 1, Len(calls[c].messages)) = calls[c].messages
              /\ calls'[c].request = calls[c].request
              /\ calls[c].convFullContent =
                     (IF calls[c].verb = "streamConversation"
                      THEN ConcatAll(Deliverable(provider, TextFragments(calls[c].emitted)))
                      ELSE "")
        /\ (calls[c].pc = "idle" /\ calls'[c].pc # "idle") =>
              /\ calls'[c].messages = messages
              /\ messages' = messages
              /\ calls'[c].request.messages =
                     (IF calls'[c].verb = "sendConversation"
                      THEN ProviderSendConversation(provider, messages,
                               mergeOptions(defaultOptions, NoOptions, SendOverrides))
                      ELSE ProviderStreamConversation(provider, messages,
                               mergeOptions(defaultOptions, NoOptions, StreamOverrides))).messages
        /\ (calls[c].pc = "settled" /\ calls'[c].pc = "returned") =>
              messages' = (IF calls[c].outcome.kind = "response"
                           THEN Append(messages, ReplyOf(calls[c]))
                           ELSE messages)
        /\ (calls' # calls /\ \A d \in CallIds : calls'[d].pc # "returned" \/ calls[d].pc = "returned")
              => messages' = messages]_vars

C28_Witness ==
    /\ calls["c1"].pc = "returned" /\ calls["c2"].pc = "returned"
    /\ calls["c1"].verb = "streamConversation" /\ calls["c2"].verb = "sendConversation"
    /\ calls["c1"].outcome.kind = "response" /\ calls["c2"].outcome.kind = "response"
    /\ calls["c1"].messages = calls["c2"].messages
    /\ Len(calls["c1"].messages) = 1
    /\ Len(messages) = 3
    /\ messages[2] = ReplyOf(calls["c2"])
    /\ messages[3] = ReplyOf(calls["c1"])
    /\ messages[3].content = "aa"
====
